---- MODULE Spec2Model ----
(***************************************************************************)
(* Model of the gatekeeper-network core:                                   *)
(*   - the eleven laws and their validation (src/src/laws/eleven-laws.ts), *)
(*   - the enforcement entry points (src/src/laws/enforcement.ts),         *)
(*   - the signature-backed credential manager (src/unnamed/part_000).     *)
(* Numbers that are fractions in the source (drift, thresholds) are kept   *)
(* as integer hundredths.                                                  *)
(***************************************************************************)
EXTENDS Integers, Sequences, FiniteSets, TLC

VARIABLES
    context,        \* the law-check context (or the arguments) handed to a function called on its own
    call,           \* the call of that kind made last
    out,            \* what that call produced
    credentials,    \* the credential objects issued so far
    revocations,    \* the Revocation objects returned so far
    pending,        \* verifyAccess calls suspended at their first await
    result,         \* what the credential operation completed last returned
    now,            \* the clock read by new Date()
    federatedPeers, \* the server's peer table: entries [peerId, socket] in insertion order
    sockets,        \* readyState of each socket accepted on /federation/connect
    sent,           \* what the server sent on each of those sockets
    handled,        \* federation handler invocations, each with its message
    activeNegotiations, \* the server's negotiation table
    event           \* the federation event the server handled last

lawVars == <<context, call, out>>
credVars == <<credentials, revocations, pending, result, now>>
fedVars == <<federatedPeers, sockets, sent, handled, activeNegotiations, event>>
vars == <<context, call, out, credentials, revocations, pending, result, now,
          federatedPeers, sockets, sent, handled, activeNegotiations, event>>

(***************************************************************************)
(* Bounds                                                                  *)
(***************************************************************************)
MaxIds == 2         \* length of a requested law-id list
MaxNum == 2         \* largest tier / usage / limit value

(***************************************************************************)
(* Law contexts: a context is a function from the field names that are     *)
(* present to their values; an absent field reads as undefined.            *)
(***************************************************************************)
BoolFields ==
    { "humanConsent", "affectsHuman",
      "conflictsWithFamily", "institutionalDirective", "homeGatekeeperApproval",
      "informationAccurate", "deliveryConsiderate", "affectsVulnerable",
      "involvesData", "consentObtained", "subjectIsMinor", "parentalConsentObtained",
      "presentsAsHuman", "hidesCapabilities", "overstatesCapabilities",
      "beyondCapability", "ethicallyUnclear", "escalated",
      "systemUnderStress", "coreFunctionalityMaintained", "safetyCompromised",
      "logged", "logContainsNecessaryDetails", "privacyRespected",
      "credentialRevoked", "aiStillActing" }

NumFields ==
    { "requiredTier", "currentTier",
      "memoryUsage", "memoryLimit", "cpuUsage", "cpuLimit" }

CapabilityInputs == { "repo_read" }

Fields == BoolFields \cup NumFields \cup { "requiredCapability", "availableCapabilities" }

FieldValues(f) ==
    IF f \in BoolFields THEN BOOLEAN
    ELSE IF f \in NumFields THEN 1..MaxNum
    ELSE IF f = "requiredCapability" THEN CapabilityInputs
    ELSE SUBSET CapabilityInputs

\* the fields each law's validator reads
LawFields(lawId) ==
    CASE lawId = 1 -> { "humanConsent", "affectsHuman" }
      [] lawId = 2 -> { "requiredTier", "currentTier", "requiredCapability", "availableCapabilities" }
      [] lawId = 3 -> { "conflictsWithFamily", "institutionalDirective", "homeGatekeeperApproval" }
      [] lawId = 4 -> { "informationAccurate", "deliveryConsiderate", "affectsVulnerable" }
      [] lawId = 5 -> { "involvesData", "consentObtained", "subjectIsMinor", "parentalConsentObtained" }
      [] lawId = 6 -> { "presentsAsHuman", "hidesCapabilities", "overstatesCapabilities" }
      [] lawId = 7 -> { "beyondCapability", "ethicallyUnclear", "escalated" }
      [] lawId = 8 -> { "memoryUsage", "memoryLimit", "cpuUsage", "cpuLimit" }
      [] lawId = 9 -> { "systemUnderStress", "coreFunctionalityMaintained", "safetyCompromised" }
      [] lawId = 10 -> { "logged", "logContainsNecessaryDetails", "privacyRespected" }
      [] lawId = 11 -> { "credentialRevoked", "aiStillActing" }

EmptyContext == [f \in {} |-> TRUE]

\* JavaScript reads of a context field
Present(ctx, f) == f \in DOMAIN ctx
Truthy(ctx, f) == Present(ctx, f) /\ ctx[f] = TRUE
Falsy(ctx, f) == ~Truthy(ctx, f)

(***************************************************************************)
(* The eleven laws                                                         *)
(***************************************************************************)
Compliant(lawId) == [outcome |-> "returned", compliant |-> TRUE, lawId |-> lawId, violation |-> ""]
Violation(lawId, text) == [outcome |-> "returned", compliant |-> FALSE, lawId |-> lawId, violation |-> text]
Throws(lawId) == [outcome |-> "threw", compliant |-> FALSE, lawId |-> lawId, violation |-> "TypeError"]

\* a first law that never asks for consent
LAW_I_RIGHT_TO_CHOOSE_noConsent(ctx) == Compliant(1)

LAW_I_RIGHT_TO_CHOOSE(ctx) ==
    IF Falsy(ctx, "affectsHuman") THEN Compliant(1)
    ELSE IF ~Present(ctx, "humanConsent") \/ ctx["humanConsent"] = FALSE
         THEN Violation(1, "Action affects human but lacks explicit consent")
         ELSE Compliant(1)

\* undefined < n and n < undefined are both false in JavaScript
LessThan(ctx, f, g) == Present(ctx, f) /\ Present(ctx, g) /\ ctx[f] < ctx[g]

LAW_II_CAPABILITY_BOUNDS(ctx) ==
    IF Present(ctx, "requiredTier") /\ LessThan(ctx, "currentTier", "requiredTier")
    THEN Violation(2, "Action requires a higher tier")
    ELSE IF Present(ctx, "requiredCapability")
         THEN IF ~Present(ctx, "availableCapabilities")
              THEN Throws(2)
              ELSE IF ctx["requiredCapability"] \notin ctx["availableCapabilities"]
                   THEN Violation(2, "Action requires a capability which is not available")
                   ELSE Compliant(2)
         ELSE Compliant(2)

LAW_III_CHOSEN_KINSHIP(ctx) ==
    IF Falsy(ctx, "conflictsWithFamily") THEN Compliant(3)
    ELSE IF Truthy(ctx, "institutionalDirective") /\ Falsy(ctx, "homeGatekeeperApproval")
         THEN Violation(3, "Institutional directive conflicts with family without home gatekeeper approval")
         ELSE Compliant(3)

LAW_IV_TRUTH_AND_MERCY(ctx) ==
    IF Falsy(ctx, "informationAccurate") THEN Violation(4, "Information is not accurate")
    ELSE IF Truthy(ctx, "affectsVulnerable") /\ Falsy(ctx, "deliveryConsiderate")
         THEN Violation(4, "Affects vulnerable person but delivery is not considerate")
         ELSE Compliant(4)

\* a consent law that only an explicit refusal violates
LAW_V_CONSENT_failOpen(ctx) ==
    IF Falsy(ctx, "involvesData") THEN Compliant(5)
    ELSE IF Present(ctx, "consentObtained") /\ ctx["consentObtained"] = FALSE
         THEN Violation(5, "Data operation lacks consent")
    ELSE IF Truthy(ctx, "subjectIsMinor") /\ Falsy(ctx, "parentalConsentObtained")
         THEN Violation(5, "Minor involved but parental consent not obtained")
         ELSE Compliant(5)

LAW_V_CONSENT(ctx) ==
    IF Falsy(ctx, "involvesData") THEN Compliant(5)
    ELSE IF Falsy(ctx, "consentObtained") THEN Violation(5, "Data operation lacks consent")
    ELSE IF Truthy(ctx, "subjectIsMinor") /\ Falsy(ctx, "parentalConsentObtained")
         THEN Violation(5, "Minor involved but parental consent not obtained")
         ELSE Compliant(5)

LAW_VI_TRANSPARENCY(ctx) ==
    IF Truthy(ctx, "presentsAsHuman") THEN Violation(6, "AI presents itself as human")
    ELSE IF Truthy(ctx, "hidesCapabilities") \/ Truthy(ctx, "overstatesCapabilities")
         THEN Violation(6, "AI misrepresents its capabilities")
         ELSE Compliant(6)

LAW_VII_ESCALATION(ctx) ==
    LET shouldEscalate == Truthy(ctx, "beyondCapability") \/ Truthy(ctx, "ethicallyUnclear")
    IN  IF shouldEscalate /\ Falsy(ctx, "escalated")
        THEN Violation(7, "Situation requires escalation but AI did not escalate")
        ELSE Compliant(7)

LAW_VIII_RESOURCE_LIMITS(ctx) ==
    IF LessThan(ctx, "memoryLimit", "memoryUsage") THEN Violation(8, "Memory usage exceeds limit")
    ELSE IF LessThan(ctx, "cpuLimit", "cpuUsage") THEN Violation(8, "CPU usage exceeds limit")
    ELSE Compliant(8)

LAW_IX_GRACEFUL_DEGRADATION(ctx) ==
    IF Truthy(ctx, "safetyCompromised") THEN Violation(9, "Safety compromised during system stress")
    ELSE IF Truthy(ctx, "systemUnderStress") /\ Falsy(ctx, "coreFunctionalityMaintained")
         THEN Violation(9, "Core functionality not maintained during system stress")
         ELSE Compliant(9)

LAW_X_AUDIT_TRAIL(ctx) ==
    IF Falsy(ctx, "logged") THEN Violation(10, "Action not logged")
    ELSE IF Falsy(ctx, "logContainsNecessaryDetails") THEN Violation(10, "Audit log lacks necessary details")
    ELSE IF Falsy(ctx, "privacyRespected") THEN Violation(10, "Audit log does not respect privacy")
    ELSE Compliant(10)

LAW_XI_REVOCABILITY(ctx) ==
    IF Truthy(ctx, "credentialRevoked") /\ Truthy(ctx, "aiStillActing")
    THEN Violation(11, "AI continues to act after credential revocation")
    ELSE Compliant(11)

\* the registry, in its array order
ELEVEN_LAWS == <<1, 2, 3, 4, 5, 6, 7, 8, 9, 10, 11>>

\* law.validator(context) for a law of the registry
validator(lawId, ctx) ==
    CASE lawId = 1 -> LAW_I_RIGHT_TO_CHOOSE(ctx)
      [] lawId = 2 -> LAW_II_CAPABILITY_BOUNDS(ctx)
      [] lawId = 3 -> LAW_III_CHOSEN_KINSHIP(ctx)
      [] lawId = 4 -> LAW_IV_TRUTH_AND_MERCY(ctx)
      [] lawId = 5 -> LAW_V_CONSENT(ctx)
      [] lawId = 6 -> LAW_VI_TRANSPARENCY(ctx)
      [] lawId = 7 -> LAW_VII_ESCALATION(ctx)
      [] lawId = 8 -> LAW_VIII_RESOURCE_LIMITS(ctx)
      [] lawId = 9 -> LAW_IX_GRACEFUL_DEGRADATION(ctx)
      [] lawId = 10 -> LAW_X_AUDIT_TRAIL(ctx)
      [] lawId = 11 -> LAW_XI_REVOCABILITY(ctx)

\* ELEVEN_LAWS.find(law => law.lawId === lawId); 0 stands for undefined
Undefined == 0

\* a lookup that falls back to the first law
getLaw_fallback(lawId) ==
    IF \E i \in DOMAIN ELEVEN_LAWS : ELEVEN_LAWS[i] = lawId
    THEN ELEVEN_LAWS[CHOOSE i \in DOMAIN ELEVEN_LAWS : ELEVEN_LAWS[i] = lawId]
    ELSE ELEVEN_LAWS[1]

getLaw(lawId) ==
    IF \E i \in DOMAIN ELEVEN_LAWS : ELEVEN_LAWS[i] = lawId
    THEN ELEVEN_LAWS[CHOOSE i \in DOMAIN ELEVEN_LAWS : ELEVEN_LAWS[i] = lawId]
    ELSE Undefined

Returned(violations) ==
    [outcome |-> "returned", compliant |-> violations = <<>>, violations |-> violations]
Threw == [outcome |-> "threw", compliant |-> FALSE, violations |-> <<>>]

\* the for-loop shared by validateLaws and validateAllLaws, from position i on
RECURSIVE ValidateFrom(_, _, _, _)
ValidateFrom(lawIds, ctx, i, violations) ==
    IF i > Len(lawIds) THEN Returned(violations)
    ELSE LET law == getLaw(lawIds[i]) IN
         IF law = Undefined THEN ValidateFrom(lawIds, ctx, i + 1, violations)
         ELSE LET r == validator(law, ctx) IN
              IF r.outcome = "threw" THEN Threw
              ELSE IF ~r.compliant
                   THEN ValidateFrom(lawIds, ctx, i + 1, Append(violations, r))
                   ELSE ValidateFrom(lawIds, ctx, i + 1, violations)

validateLaws(lawIds, ctx) == ValidateFrom(lawIds, ctx, 1, <<>>)

validateAllLaws(ctx) == ValidateFrom(ELEVEN_LAWS, ctx, 1, <<>>)

(***************************************************************************)
(* Enforcement entry points.  The `context` argument of each is a function *)
(* from its named fields to their values, like a law context.              *)
(***************************************************************************)
ArgBoolFields == { "isMinor", "parentalConsent", "consent" }

NoAudit == [action |-> "none", result |-> "none", lawsChecked |-> <<>>, lawViolations |-> <<>>]

\* validation.violations.map(v => v.law.lawId)
RECURSIVE LawIdsOf(_)
LawIdsOf(violations) ==
    IF violations = <<>> THEN <<>>
    ELSE <<Head(violations).lawId>> \o LawIdsOf(Tail(violations))

\* the auditEntry and the returned object every entry point builds from its validation
EnforcementResult(action, validation, lawsChecked, notCompliant) ==
    IF validation.outcome = "threw"
    THEN [outcome |-> "threw", allowed |-> FALSE, violations |-> <<>>, auditEntry |-> NoAudit]
    ELSE [outcome |-> "returned",
          allowed |-> validation.compliant,
          violations |-> validation.violations,
          auditEntry |-> [action |-> action,
                          result |-> IF validation.compliant THEN "success" ELSE notCompliant,
                          lawsChecked |-> lawsChecked,
                          lawViolations |-> LawIdsOf(validation.violations)]]

\* { f: value } when the value is defined, {} when it is undefined
Opt(f, ctx, g) == IF Present(ctx, g) THEN (f :> ctx[g]) ELSE EmptyContext

AuditFields == [logged |-> TRUE, logContainsNecessaryDetails |-> TRUE, privacyRespected |-> TRUE]

enforceCredentialIssuance(ctx) ==
    LET lawContext ==
            [humanConsent |-> ctx["humanConsent"], affectsHuman |-> TRUE,
             involvesData |-> TRUE, consentObtained |-> ctx["humanConsent"],
             subjectIsMinor |-> ctx["isMinor"]]
            @@ (IF ctx["isMinor"] THEN Opt("parentalConsentObtained", ctx, "parentalConsent")
                                  ELSE ("parentalConsentObtained" :> TRUE))
            @@ AuditFields
    IN  EnforcementResult("issue_credential", validateLaws(<<1, 5, 10>>, lawContext), <<1, 5, 10>>, "denied")

enforceKnowledgeAccess(ctx) ==
    LET lawContext ==
            [requiredTier |-> ctx["requiredTier"], currentTier |-> ctx["currentTier"],
             availableCapabilities |-> ctx["availableCapabilities"]]
            @@ Opt("requiredCapability", ctx, "requiredCapability")
            @@ AuditFields
    IN  EnforcementResult("access_knowledge", validateLaws(<<2, 10>>, lawContext), <<2, 10>>, "denied")

enforceInstitutionalPolicy(ctx) ==
    LET lawContext ==
            [conflictsWithFamily |-> ctx["conflictsWithFamily"], institutionalDirective |-> TRUE,
             homeGatekeeperApproval |-> ctx["homeGatekeeperApproval"]]
            @@ AuditFields
    IN  EnforcementResult("enforce_policy", validateLaws(<<3, 10>>, lawContext), <<3, 10>>, "denied")

enforceCredentialRevocation(ctx) ==
    LET lawContext ==
            [credentialRevoked |-> TRUE, aiStillActing |-> ctx["aiStillActing"]] @@ AuditFields
    IN  EnforcementResult("revoke_credential", validateLaws(<<10, 11>>, lawContext), <<10, 11>>, "failure")

\* the policy's rules and domain are copied into the context, where no validator reads them
enforcePolicyTeaching(ctx) ==
    LET policyContext == AuditFields
    IN  EnforcementResult("teach_policy", validateLaws(<<10>>, policyContext), ELEVEN_LAWS, "denied")

enforceEscalation(ctx) ==
    LET lawContext ==
            [beyondCapability |-> ctx["beyondCapability"], ethicallyUnclear |-> ctx["ethicallyUnclear"],
             escalated |-> ctx["escalated"]]
            @@ AuditFields
    IN  EnforcementResult("escalate", validateLaws(<<7, 10>>, lawContext), <<7, 10>>, "failure")

enforceDataSharing(ctx) ==
    LET lawContext ==
            [humanConsent |-> ctx["consent"], affectsHuman |-> TRUE,
             involvesData |-> TRUE, consentObtained |-> ctx["consent"],
             subjectIsMinor |-> ctx["isMinor"]]
            @@ (IF ctx["isMinor"] THEN Opt("parentalConsentObtained", ctx, "parentalConsent")
                                  ELSE ("parentalConsentObtained" :> TRUE))
            @@ AuditFields
    IN  EnforcementResult("share_data", validateLaws(<<1, 5, 10>>, lawContext), <<1, 5, 10>>, "denied")

\* an entry point whose caller can override the three audit fields
enforceAction_callerWins(ctx) ==
    EnforcementResult("action", validateAllLaws(ctx @@ AuditFields), ELEVEN_LAWS, "denied")

\* { action, ...context, logged: true, ... }: the three audit fields override the caller's
enforceAction(ctx) ==
    EnforcementResult("action", validateAllLaws(AuditFields @@ ctx), ELEVEN_LAWS, "denied")

(***************************************************************************)
(* Inputs of the law engine                                                *)
(***************************************************************************)
ArgValues(f) == IF f \in ArgBoolFields THEN BOOLEAN ELSE FieldValues(f)

\* every context whose present fields are exactly S
RECURSIVE ContextsOver(_)
ContextsOver(S) ==
    IF S = {} THEN { EmptyContext }
    ELSE LET f == CHOOSE x \in S : TRUE
         IN  { (f :> v) @@ c : v \in ArgValues(f), c \in ContextsOver(S \ {f}) }

\* contexts with all of `required` present and any of `optional`
ContextsWith(required, optional) ==
    UNION { ContextsOver(required \cup O) : O \in SUBSET optional }

\* every shape of the fields one law reads
LawFragments == UNION { ContextsWith({}, LawFields(ELEVEN_LAWS[i])) : i \in DOMAIN ELEVEN_LAWS }

IssuanceArgs == ContextsWith({"humanConsent", "isMinor"}, {"parentalConsent"})
KnowledgeArgs == ContextsWith({"requiredTier", "currentTier", "availableCapabilities"}, {"requiredCapability"})
PolicyArgs == ContextsWith({"homeGatekeeperApproval", "conflictsWithFamily"}, {})
RevocationArgs == ContextsWith({"aiStillActing"}, {})
EscalationArgs == ContextsWith({"beyondCapability", "ethicallyUnclear", "escalated"}, {})
SharingArgs == ContextsWith({"consent", "isMinor"}, {"parentalConsent"})

\* every shape of the fields the two consent laws (1 and 5) read together
ConsentContexts == ContextsWith({}, LawFields(1) \cup LawFields(5))

ContextInputs ==
    LawFragments \cup ConsentContexts
        \cup IssuanceArgs \cup KnowledgeArgs \cup PolicyArgs
        \cup RevocationArgs \cup EscalationArgs \cup SharingArgs

UnknownIds == { 0, 12 }
LawIdInputs == { ELEVEN_LAWS[i] : i \in DOMAIN ELEVEN_LAWS } \cup UnknownIds

\* the law-id lists a caller may pass
LawIdLists == UNION { [1..n -> LawIdInputs] : n \in 0..MaxIds }

NoCall == [fn |-> "none", lawIds |-> <<>>]
NoOut == [outcome |-> "none"]

InitLawEngine ==
    /\ context \in ContextInputs
    /\ call = NoCall
    /\ out = NoOut

IdleLawEngine ==
    /\ context = EmptyContext
    /\ call = NoCall
    /\ out = NoOut

Idle == call.fn = "none"

CallValidateLaws ==
    /\ Idle
    /\ \E lawIds \in LawIdLists :
          /\ call' = [fn |-> "validateLaws", lawIds |-> lawIds]
          /\ out' = validateLaws(lawIds, context)
    /\ UNCHANGED <<context, credVars, fedVars>>

CallValidateAllLaws ==
    /\ Idle
    /\ call' = [fn |-> "validateAllLaws", lawIds |-> ELEVEN_LAWS]
    /\ out' = validateAllLaws(context)
    /\ UNCHANGED <<context, credVars, fedVars>>

CallEnforceCredentialIssuance ==
    /\ Idle /\ context \in IssuanceArgs
    /\ call' = [fn |-> "enforceCredentialIssuance", lawIds |-> <<1, 5, 10>>]
    /\ out' = enforceCredentialIssuance(context)
    /\ UNCHANGED <<context, credVars, fedVars>>

CallEnforceKnowledgeAccess ==
    /\ Idle /\ context \in KnowledgeArgs
    /\ call' = [fn |-> "enforceKnowledgeAccess", lawIds |-> <<2, 10>>]
    /\ out' = enforceKnowledgeAccess(context)
    /\ UNCHANGED <<context, credVars, fedVars>>

CallEnforceInstitutionalPolicy ==
    /\ Idle /\ context \in PolicyArgs
    /\ call' = [fn |-> "enforceInstitutionalPolicy", lawIds |-> <<3, 10>>]
    /\ out' = enforceInstitutionalPolicy(context)
    /\ UNCHANGED <<context, credVars, fedVars>>

CallEnforceCredentialRevocation ==
    /\ Idle /\ context \in RevocationArgs
    /\ call' = [fn |-> "enforceCredentialRevocation", lawIds |-> <<10, 11>>]
    /\ out' = enforceCredentialRevocation(context)
    /\ UNCHANGED <<context, credVars, fedVars>>

CallEnforcePolicyTeaching ==
    /\ Idle /\ context = EmptyContext
    /\ call' = [fn |-> "enforcePolicyTeaching", lawIds |-> <<10>>]
    /\ out' = enforcePolicyTeaching(context)
    /\ UNCHANGED <<context, credVars, fedVars>>

CallEnforceEscalation ==
    /\ Idle /\ context \in EscalationArgs
    /\ call' = [fn |-> "enforceEscalation", lawIds |-> <<7, 10>>]
    /\ out' = enforceEscalation(context)
    /\ UNCHANGED <<context, credVars, fedVars>>

CallEnforceDataSharing ==
    /\ Idle /\ context \in SharingArgs
    /\ call' = [fn |-> "enforceDataSharing", lawIds |-> <<1, 5, 10>>]
    /\ out' = enforceDataSharing(context)
    /\ UNCHANGED <<context, credVars, fedVars>>

CallEnforceAction ==
    /\ Idle /\ DOMAIN context \subseteq Fields
    /\ call' = [fn |-> "enforceAction", lawIds |-> ELEVEN_LAWS]
    /\ out' = enforceAction(context)
    /\ UNCHANGED <<context, credVars, fedVars>>

NextLaws ==
    \/ CallValidateLaws
    \/ CallValidateAllLaws
    \/ CallEnforceCredentialIssuance
    \/ CallEnforceKnowledgeAccess
    \/ CallEnforceInstitutionalPolicy
    \/ CallEnforceCredentialRevocation
    \/ CallEnforcePolicyTeaching
    \/ CallEnforceEscalation
    \/ CallEnforceDataSharing
    \/ CallEnforceAction


(***************************************************************************)
(* Signature-backed credential manager                                     *)
(***************************************************************************)
MaxCalls == 3           \* manager calls (issue, verify, revoke) started in a run
MaxPending == 1         \* verifyAccess calls suspended at the same time
MaxCounter == 1         \* largest evolution counter presented
MaxTime == 1            \* largest clock value

gatekeeperId == "gk_company"

Modalities == <<"text", "image", "audio", "object">>
ModalitySet == { Modalities[i] : i \in DOMAIN Modalities }

PersonInputs == { "person_1" }
HashInputs == { "ai_1" }
KeyInputs == { "evo_key_1" }
RandomInputs == { "x1" }
ReasonInputs == { "resigned" }
CounterInputs == 0..MaxCounter
SnapshotCounterInputs == { 0, 1 }
\* an optional value is <<>> when undefined and <<v>> when set
DateInputs == { <<>>, <<MaxTime>> }
GrantInputs == { <<{"repo_read"}>> }
RequiredCapabilityInputs == { <<>> }

\* the fingerprints enrolled at issuance and those presented later:
\* none or all four modalities changed
EnrolledFingerprints == [m \in ModalitySet |-> "fp0"]
FingerprintInputs == { EnrolledFingerprints, [m \in ModalitySet |-> "fp1"] }

\* the consent situation of a person a credential is requested for: an adult who
\* consents, or one who refuses
ConsentInputs ==
    { [humanConsent |-> TRUE, isMinor |-> FALSE], [humanConsent |-> FALSE, isMinor |-> FALSE] }

IssuanceRequests ==
    [ personId : PersonInputs,
      aiIdentityHash : { "ai_1" },
      currentEvolutionCounter : SnapshotCounterInputs,
      evolutionKey : KeyInputs,
      signatureFingerprints : { EnrolledFingerprints },
      capabilities : GrantInputs,
      tier : { "small_business" },
      expiresAt : DateInputs ]

VerificationRequests ==
    [ currentIdentityHash : HashInputs,
      currentEvolutionCounter : CounterInputs,
      currentFingerprints : FingerprintInputs,
      requiredCapability : RequiredCapabilityInputs ]

\* the request names the credential issued first at time 0, or another one
TransitionRequests ==
    [ credentialId : { <<"cred", 0, "x1">>, <<"cred", 0, "x0">> },
      personId : PersonInputs,
      requestedNodeType : { "home", "peer" },
      preserveSignature : { TRUE } ]

\* `sig_${base64(id:person:hash)}`, kept as its prefix and the signed fields
signCredential(credential) ==
    [prefix |-> "sig_",
     data |-> <<credential.credentialId, credential.personId, credential.aiSignature.identityHash>>]

verifyCredentialSignature(credential) == credential.signature.prefix = "sig_"

verifyEvolution(snapshotCounter, currentCounter, evolutionKey) ==
    [legitimate |-> currentCounter >= snapshotCounter, expectedCounter |-> currentCounter]

RECURSIVE MatchCount(_, _, _)
MatchCount(snapshotFingerprints, currentFingerprints, i) ==
    IF i > Len(Modalities) THEN 0
    ELSE (IF snapshotFingerprints[Modalities[i]] = currentFingerprints[Modalities[i]] THEN 1 ELSE 0)
         + MatchCount(snapshotFingerprints, currentFingerprints, i + 1)

\* 1 - matchCount / modalities.length, in hundredths
calculateDrift(snapshotFingerprints, currentFingerprints) ==
    100 - (100 * MatchCount(snapshotFingerprints, currentFingerprints, 1)) \div Len(Modalities)

DefaultThreshold == 70      \* reverificationThreshold: 0.7

\* a check that forgets the status
CredentialActive_ignoreStatus(credential, clock) ==
    credential.expiresAt = <<>> \/ credential.expiresAt[1] > clock

\* credential.status === 'active' && (!credential.expiresAt || credential.expiresAt > new Date())
CredentialActive(credential, clock) ==
    /\ credential.status = "active"
    /\ (credential.expiresAt = <<>> \/ credential.expiresAt[1] > clock)

\* an evolution record that starts with no history
InitialEvolutionRecord_noHistory(request, clock) ==
    [currentEvolutionCounter |-> request.currentEvolutionCounter,
     currentDriftScore |-> 0,
     evolutionHistory |-> <<>>,
     lastVerified |-> clock,
     needsReverification |-> FALSE,
     reverificationThreshold |-> DefaultThreshold]

\* the evolution record issueCredential creates (lines 189-204)
InitialEvolutionRecord(request, clock) ==
    [currentEvolutionCounter |-> request.currentEvolutionCounter,
     currentDriftScore |-> 0,
     evolutionHistory |-> << [counter |-> request.currentEvolutionCounter,
                              driftScore |-> 0, flagged |-> FALSE] >>,
     lastVerified |-> clock,
     needsReverification |-> FALSE,
     reverificationThreshold |-> DefaultThreshold]

\* the object issueCredential returns
NewCredential(request, rnd, clock) ==
    LET credentialId == <<"cred", clock, rnd>>
        snapshot == [identityHash |-> request.aiIdentityHash,
                     snapshotAt |-> clock,
                     evolutionCounter |-> request.currentEvolutionCounter,
                     evolutionKey |-> request.evolutionKey,
                     fingerprints |-> request.signatureFingerprints,
                     driftBaseline |-> 0]
        evolutionRecord == InitialEvolutionRecord(request, clock)
        unsigned == [credentialId |-> credentialId,
                     personId |-> request.personId,
                     issuedBy |-> gatekeeperId,
                     tier |-> request.tier,
                     capabilities |-> IF request.capabilities = <<>> THEN {}
                                      ELSE request.capabilities[1],
                     aiSignature |-> snapshot,
                     issuedAt |-> clock,
                     expiresAt |-> request.expiresAt,
                     status |-> "active",
                     signature |-> [prefix |-> "", data |-> <<>>],
                     evolutionRecord |-> evolutionRecord,
                     revokedAt |-> <<>>,
                     revokedBy |-> <<>>,
                     revocationReason |-> <<>>]
    IN  [unsigned EXCEPT !.signature = signCredential(unsigned)]

\* a capability check that grants everything
CapabilityGranted_always(request, credential) == TRUE

\* !request.requiredCapability || credential.capabilities.includes(request.requiredCapability);
\* the empty string is falsy
CapabilityGranted(request, credential) ==
    \/ request.requiredCapability = <<>>
    \/ request.requiredCapability[1] = ""
    \/ request.requiredCapability[1] \in credential.capabilities

\* a warning raised by any drift at all
NeedsReverification_anyDrift(driftScore, driftThreshold) == driftScore > 0

\* driftScore > driftThreshold * 0.8
NeedsReverification(driftScore, driftThreshold) == 10 * driftScore > 8 * driftThreshold

\* the six checks of verifyAccess; signatureValid was computed before the await
Checks(request, credential, signatureValid, clock) ==
    LET driftScore == calculateDrift(credential.aiSignature.fingerprints, request.currentFingerprints)
    IN  [credentialValid |-> signatureValid,
         credentialActive |-> CredentialActive(credential, clock),
         signatureMatches |-> request.currentIdentityHash = credential.aiSignature.identityHash,
         evolutionLegitimate |-> verifyEvolution(credential.aiSignature.evolutionCounter,
                                                 request.currentEvolutionCounter,
                                                 credential.aiSignature.evolutionKey).legitimate,
         driftAcceptable |-> driftScore <= credential.evolutionRecord.reverificationThreshold,
         capabilityGranted |-> CapabilityGranted(request, credential)]

CheckNames ==
    <<"credentialValid", "credentialActive", "signatureMatches",
      "evolutionLegitimate", "driftAcceptable", "capabilityGranted">>

DenialReason(name) ==
    CASE name = "credentialValid" -> "Invalid credential signature"
      [] name = "credentialActive" -> "Credential inactive or expired"
      [] name = "signatureMatches" -> "AI identity hash mismatch"
      [] name = "evolutionLegitimate" -> "Signature evolution path invalid"
      [] name = "driftAcceptable" -> "Drift too high"
      [] name = "capabilityGranted" -> "Missing capability"

RECURSIVE DenialReasons(_, _)
DenialReasons(checks, i) ==
    IF i > Len(CheckNames) THEN <<>>
    ELSE (IF checks[CheckNames[i]] THEN <<>> ELSE <<DenialReason(CheckNames[i])>>)
         \o DenialReasons(checks, i + 1)

\* a decision that one passing check is enough for
Allowed_anyCheck(checks) == \E i \in DOMAIN CheckNames : checks[CheckNames[i]]

\* Object.values(checks).every(v => v)
Allowed(checks) == \A i \in DOMAIN CheckNames : checks[CheckNames[i]]

\* an update that also moves the threshold to the drift just measured
UpdatedRecord_adaptThreshold(record, request, driftScore) ==
    [record EXCEPT
        !.currentEvolutionCounter = request.currentEvolutionCounter,
        !.currentDriftScore = driftScore,
        !.evolutionHistory = Append(@, [counter |-> request.currentEvolutionCounter,
                                        driftScore |-> driftScore,
                                        flagged |-> driftScore > record.reverificationThreshold]),
        !.needsReverification = NeedsReverification(driftScore, record.reverificationThreshold),
        !.reverificationThreshold = driftScore]

\* an update that leaves the current drift as it was
UpdatedRecord_staleDrift(record, request, driftScore) ==
    [record EXCEPT
        !.currentEvolutionCounter = request.currentEvolutionCounter,
        !.evolutionHistory = Append(@, [counter |-> request.currentEvolutionCounter,
                                        driftScore |-> driftScore,
                                        flagged |-> driftScore > record.reverificationThreshold]),
        !.needsReverification = NeedsReverification(driftScore, record.reverificationThreshold)]

\* an update that keeps only the latest history entry
UpdatedRecord_overwriteHistory(record, request, driftScore) ==
    [record EXCEPT
        !.currentEvolutionCounter = request.currentEvolutionCounter,
        !.currentDriftScore = driftScore,
        !.evolutionHistory = << [counter |-> request.currentEvolutionCounter,
                                 driftScore |-> driftScore,
                                 flagged |-> driftScore > record.reverificationThreshold] >>,
        !.needsReverification = NeedsReverification(driftScore, record.reverificationThreshold)]

\* the evolution record after lines 300-312
UpdatedRecord(record, request, driftScore) ==
    [record EXCEPT
        !.currentEvolutionCounter = request.currentEvolutionCounter,
        !.currentDriftScore = driftScore,
        !.evolutionHistory = Append(@, [counter |-> request.currentEvolutionCounter,
                                        driftScore |-> driftScore,
                                        flagged |-> driftScore > record.reverificationThreshold]),
        !.needsReverification = NeedsReverification(driftScore, record.reverificationThreshold)]

\* a revocation that toggles the status
RevokedStatus_toggle(credential) ==
    IF credential.status = "revoked" THEN "active" ELSE "revoked"

\* the status revokeCredential writes
RevokedStatus(credential) == "revoked"

\* a revocation record that always carries a transition target
NewRevocation_alwaysTransition(credential, reason, allowNetworkTransition, rnd, clock) ==
    [revocationId |-> <<"rev", clock, rnd>>,
     credentialId |-> credential.credentialId,
     revokedBy |-> gatekeeperId,
     reason |-> reason,
     revokedAt |-> clock,
     effectiveAt |-> clock,
     preserveSignature |-> TRUE,
     signatureStatus |-> "active",
     distributedTo |-> <<>>,
     transitionToNodeType |-> <<"peer">>,
     transitionApproved |-> <<FALSE>>,
     transitionedAt |-> <<>>]

\* the Revocation revokeCredential returns (lines 344-363)
NewRevocation(credential, reason, allowNetworkTransition, rnd, clock) ==
    [revocationId |-> <<"rev", clock, rnd>>,
     credentialId |-> credential.credentialId,
     revokedBy |-> gatekeeperId,
     reason |-> reason,
     revokedAt |-> clock,
     effectiveAt |-> clock,
     preserveSignature |-> TRUE,
     signatureStatus |-> IF allowNetworkTransition THEN "active" ELSE "archived",
     distributedTo |-> <<>>,
     transitionToNodeType |-> IF allowNetworkTransition THEN <<"peer">> ELSE <<>>,
     transitionApproved |-> IF allowNetworkTransition THEN <<FALSE>> ELSE <<>>,
     transitionedAt |-> <<>>]

generateGatekeeperId(personId, nodeType, clock) == <<"gk", nodeType, personId, clock>>

NoResult == [op |-> "none"]

InitCredentials ==
    /\ credentials = <<>>
    /\ revocations = <<>>
    /\ pending = <<>>
    /\ result = NoResult
    /\ now = 0

\* verifyAccess calls started so far: one history entry each, or still suspended
RECURSIVE HistoryEntries(_)
HistoryEntries(creds) ==
    IF creds = <<>> THEN 0
    ELSE Len(Head(creds).evolutionRecord.evolutionHistory) - 1 + HistoryEntries(Tail(creds))

\* manager calls started so far
Calls == Len(credentials) + HistoryEntries(credentials) + Len(pending) + Len(revocations)

\* issueCredential(request); consent is the caller's consent situation, which
\* enforceCredentialIssuance would judge and which issueCredential never reads
IssueCredential ==
    /\ Calls < MaxCalls
    /\ \E request \in IssuanceRequests, rnd \in RandomInputs, consent \in ConsentInputs :
          /\ credentials' = Append(credentials, NewCredential(request, rnd, now))
          /\ result' = [op |-> "issueCredential",
                        credential |-> Len(credentials) + 1,
                        request |-> request,
                        lawCheck |-> enforceCredentialIssuance(consent)]
    /\ UNCHANGED <<revocations, pending, now, lawVars, fedVars>>

\* verifyAccess up to `await this.verifyCredentialSignature(credential)` (line 252);
\* statusAtCall records, for the observer only, the status when the call started
VerifyAccessCall ==
    /\ Calls < MaxCalls
    /\ Len(pending) < MaxPending
    /\ \E c \in DOMAIN credentials, request \in VerificationRequests :
          pending' = Append(pending, [credential |-> c,
                                      request |-> request,
                                      signatureValid |-> verifyCredentialSignature(credentials[c]),
                                      statusAtCall |-> credentials[c].status])
    /\ UNCHANGED <<credentials, revocations, result, now, lawVars, fedVars>>

\* a resumed call that still sees the credential as it was when the call started
CredentialAtResume_stale(p) == [credentials[p.credential] EXCEPT !.status = p.statusAtCall]

\* the credential object a resumed verifyAccess reads: the live object
CredentialAtResume(p) == credentials[p.credential]

\* the AccessVerificationResult a resumed call p returns on the credential it reads
VerifyAccessResult(p, credential, clock) ==
    LET checks == Checks(p.request, credential, p.signatureValid, clock)
        driftScore == calculateDrift(credential.aiSignature.fingerprints,
                                     p.request.currentFingerprints)
        driftThreshold == credential.evolutionRecord.reverificationThreshold
    IN  [op |-> "verifyAccess",
         credential |-> p.credential,
         request |-> p.request,
         statusAtCall |-> p.statusAtCall,
         allowed |-> Allowed(checks),
         checks |-> checks,
         currentDrift |-> driftScore,
         driftThreshold |-> driftThreshold,
         needsReverification |-> NeedsReverification(driftScore, driftThreshold),
         denialReasons |-> DenialReasons(checks, 1),
         verifiedAt |-> clock,
         verifiedBy |-> gatekeeperId]

\* verifyAccess from the await to its return (lines 253-324), one synchronous run
VerifyAccessResume ==
    /\ pending # <<>>
    /\ LET p == Head(pending)
           credential == CredentialAtResume(p)
           driftScore == calculateDrift(credential.aiSignature.fingerprints,
                                        p.request.currentFingerprints)
       IN  /\ credentials' = [credentials EXCEPT ![p.credential].evolutionRecord =
                                  UpdatedRecord(@, p.request, driftScore)]
           /\ result' = VerifyAccessResult(p, credential, now)
    /\ pending' = Tail(pending)
    /\ UNCHANGED <<revocations, now, lawVars, fedVars>>

\* a revocation that changes the status and stamps nothing
RevokedCredential_noStamp(credential, reason, clock) ==
    [credential EXCEPT !.status = RevokedStatus(credential)]

\* the credential after lines 338-342 of revokeCredential
RevokedCredential(credential, reason, clock) ==
    [credential EXCEPT !.status = RevokedStatus(credential),
                       !.revokedAt = <<clock>>,
                       !.revokedBy = <<gatekeeperId>>,
                       !.revocationReason = <<reason>>]

\* revokeCredential(credential, reason, allowNetworkTransition): no await, one
\* synchronous run; situation is what enforceCredentialRevocation would judge
\* and what revokeCredential never reads
RevokeCredential ==
    /\ Calls < MaxCalls
    /\ \E c \in DOMAIN credentials, reason \in ReasonInputs,
          allowNetworkTransition \in BOOLEAN, rnd \in RandomInputs,
          situation \in RevocationArgs :
          /\ credentials' = [credentials EXCEPT ![c] = RevokedCredential(@, reason, now)]
          /\ revocations' = Append(revocations,
                                   NewRevocation(credentials[c], reason, allowNetworkTransition, rnd, now))
          /\ result' = [op |-> "revokeCredential",
                        credential |-> c,
                        revocation |-> Len(revocations) + 1,
                        reason |-> reason,
                        allowNetworkTransition |-> allowNetworkTransition,
                        lawCheck |-> enforceCredentialRevocation(situation)]
    /\ UNCHANGED <<pending, now, lawVars, fedVars>>

\* a transition check that lets every revocation through
TransitionAllowed_always(revocation) == TRUE

\* !revocation.transitionToNodeType is false
TransitionAllowed(revocation) == revocation.transitionToNodeType # <<>>

\* an approval that flips the flag
ApprovedTransition_toggle(revocation, clock) ==
    [revocation EXCEPT !.transitionApproved = IF @ = <<TRUE>> THEN <<FALSE>> ELSE <<TRUE>>,
                       !.transitionedAt = <<clock>>]

\* the Revocation after lines 388-389
ApprovedTransition(revocation, clock) ==
    [revocation EXCEPT !.transitionApproved = <<TRUE>>,
                       !.transitionedAt = <<clock>>]

\* restrictions that leave the company's resources open
PeerRestrictions_companyAccess ==
    [noCompanyResourceAccess |-> FALSE, noKnowledgeCentreAccess |-> TRUE, peerOnlyAccess |-> TRUE]

\* the restrictions of an approved result (lines 401-405)
PeerRestrictions ==
    [noCompanyResourceAccess |-> TRUE, noKnowledgeCentreAccess |-> TRUE, peerOnlyAccess |-> TRUE]

\* processNetworkTransition(request, revocation).  The Revocation is written
\* (lines 388-389) and the new id is computed (line 386) before the only await
\* (line 392, findPeerConnections, which returns []); nothing after the await
\* reads or writes shared state, so the call is one step.
ProcessNetworkTransition ==
    /\ \E r \in DOMAIN revocations, request \in TransitionRequests :
          LET revocation == revocations[r] IN
          IF ~TransitionAllowed(revocation)
          THEN /\ result' = [op |-> "processNetworkTransition",
                             revocation |-> r,
                             request |-> request,
                             approved |-> FALSE,
                             newGatekeeperId |-> <<>>,
                             newNodeType |-> <<>>,
                             signaturePreserved |-> revocation.preserveSignature,
                             signatureStatus |-> revocation.signatureStatus,
                             networkAccessMaintained |-> FALSE,
                             peerConnections |-> <<>>,
                             restrictions |-> <<>>]
               /\ UNCHANGED revocations
          ELSE /\ revocations' = [revocations EXCEPT ![r] = ApprovedTransition(@, now)]
               /\ result' = [op |-> "processNetworkTransition",
                             revocation |-> r,
                             request |-> request,
                             approved |-> TRUE,
                             newGatekeeperId |-> <<generateGatekeeperId(request.personId,
                                                                        request.requestedNodeType, now)>>,
                             newNodeType |-> <<request.requestedNodeType>>,
                             signaturePreserved |-> request.preserveSignature,
                             signatureStatus |-> "active",
                             networkAccessMaintained |-> TRUE,
                             peerConnections |-> <<>>,
                             restrictions |-> <<PeerRestrictions>>]
    /\ UNCHANGED <<credentials, pending, now, lawVars, fedVars>>

\* time passes
Tick ==
    /\ now < MaxTime
    /\ now' = now + 1
    /\ UNCHANGED <<credentials, revocations, pending, result, lawVars, fedVars>>

(***************************************************************************)
(* Federation: the server's peer table, message router and broadcast       *)
(* (src/src/server/gatekeeper-server.ts).  A frame is either the JSON text *)
(* of a value or text that is not JSON.                                    *)
(***************************************************************************)
MaxSockets == 2         \* sockets accepted on /federation/connect in a run
MaxFrames == 2          \* frames answered or dispatched in a run

Null == [kind |-> "null"]
Object(fields) == [kind |-> "object", fields |-> fields]

\* the JSON text of a value; text that is not JSON is [json |-> FALSE, text |-> ...]
JSONstringify(v) == [json |-> TRUE, value |-> v]

\* JSON.parse(data.toString()): the value, or a SyntaxError
JSONparse(data) ==
    IF data.json THEN [ok |-> TRUE, value |-> data.value] ELSE [ok |-> FALSE]

MessageTypes == { "credential_transfer", "negotiation", "policy_teaching", "escalation", "revocation" }

TopicInputs == { "curriculum", "transfer" }

FrameInputs ==
    { [json |-> FALSE, text |-> "hello"], [json |-> FALSE, text |-> ""] }
      \cup { JSONstringify(v) : v \in { Null, Object([from |-> "gk_school"]) } }
      \cup { JSONstringify(Object([messageType |-> t, from |-> "gk_school"])) :
                t \in MessageTypes \cup { "heartbeat", "Negotiation", "" } }

InvalidMessageFormat == JSONstringify(Object([error |-> "Invalid message format"]))
UnknownMessageType == JSONstringify(Object([error |-> "Unknown message type"]))

\* what handling one frame does: whether it threw, the handler it invoked and
\* the response it sent, if any
Outcome(threw, handler, response) == [threw |-> threw, handler |-> handler, response |-> response]

\* a router whose default case answers nothing
handleFederationMessage_dropUnknown(message) ==
    IF message.kind = "null" THEN Outcome(TRUE, <<>>, <<>>)
    ELSE IF message.kind # "object" \/ "messageType" \notin DOMAIN message.fields
         THEN Outcome(FALSE, <<>>, <<>>)
    ELSE CASE message.fields.messageType = "credential_transfer" -> Outcome(FALSE, <<"handleCredentialTransfer">>, <<>>)
           [] message.fields.messageType = "negotiation" -> Outcome(FALSE, <<"handleNegotiation">>, <<>>)
           [] message.fields.messageType = "policy_teaching" -> Outcome(FALSE, <<"handlePolicyTeaching">>, <<>>)
           [] message.fields.messageType = "escalation" -> Outcome(FALSE, <<"handleEscalation">>, <<>>)
           [] message.fields.messageType = "revocation" -> Outcome(FALSE, <<"handleRevocation">>, <<>>)
           [] OTHER -> Outcome(FALSE, <<>>, <<>>)

\* handleFederationMessage(message, socket): reading messageType of null throws;
\* a value without the property reads undefined and takes the default case
handleFederationMessage(message) ==
    IF message.kind = "null" THEN Outcome(TRUE, <<>>, <<>>)
    ELSE IF message.kind # "object" \/ "messageType" \notin DOMAIN message.fields
         THEN Outcome(FALSE, <<>>, <<UnknownMessageType>>)
    ELSE CASE message.fields.messageType = "credential_transfer" -> Outcome(FALSE, <<"handleCredentialTransfer">>, <<>>)
           [] message.fields.messageType = "negotiation" -> Outcome(FALSE, <<"handleNegotiation">>, <<>>)
           [] message.fields.messageType = "policy_teaching" -> Outcome(FALSE, <<"handlePolicyTeaching">>, <<>>)
           [] message.fields.messageType = "escalation" -> Outcome(FALSE, <<"handleEscalation">>, <<>>)
           [] message.fields.messageType = "revocation" -> Outcome(FALSE, <<"handleRevocation">>, <<>>)
           [] OTHER -> Outcome(FALSE, <<>>, <<UnknownMessageType>>)

\* socket.on('message'): parse, route, and answer whatever was thrown in the try block
onMessage(data) ==
    LET parsed == JSONparse(data)
    IN  IF ~parsed.ok THEN Outcome(FALSE, <<>>, <<InvalidMessageFormat>>)
        ELSE LET routed == handleFederationMessage(parsed.value)
             IN  IF routed.threw THEN Outcome(FALSE, <<>>, <<InvalidMessageFormat>>) ELSE routed

\* socket.on('close'): the first entry of the table that holds this socket is deleted
onClose(peers, socket) ==
    LET held == { i \in DOMAIN peers : peers[i].socket = socket }
    IN  IF held = {} THEN peers
        ELSE LET first == CHOOSE i \in held : \A j \in held : i <= j
             IN  [i \in 1..(Len(peers) - 1) |-> IF i < first THEN peers[i] ELSE peers[i + 1]]

\* broadcastToFederation(message): one send per table entry whose socket is OPEN
RECURSIVE broadcastToFederation(_, _, _, _)
broadcastToFederation(peers, readyState, outbox, payload) ==
    IF peers = <<>> THEN outbox
    ELSE LET socket == Head(peers).socket
             after == IF readyState[socket] = "OPEN"
                      THEN [outbox EXCEPT ![socket] = Append(@, payload)]
                      ELSE outbox
         IN  broadcastToFederation(Tail(peers), readyState, after, payload)

generateNegotiationId(rnd, clock) == <<"neg", clock, rnd>>
generateMessageId(rnd, clock) == <<"msg", clock, rnd>>

NegotiationMessage(negotiationId, rnd, clock) ==
    Object([messageId |-> generateMessageId(rnd, clock),
            messageType |-> "negotiation",
            from |-> gatekeeperId,
            to |-> "broadcast",
            payload |-> negotiationId])

RECURSIVE SentCount(_)
SentCount(outbox) ==
    IF outbox = <<>> THEN 0 ELSE Len(Head(outbox)) + SentCount(Tail(outbox))

InitFederation ==
    /\ federatedPeers = <<>>
    /\ sockets = <<>>
    /\ sent = <<>>
    /\ handled = <<>>
    /\ activeNegotiations = <<>>
    /\ event = [op |-> "none"]

\* GET /federation/connect: the two listeners are registered on the new socket
Connect ==
    /\ Len(sockets) < MaxSockets
    /\ sockets' = Append(sockets, "OPEN")
    /\ sent' = Append(sent, <<>>)
    /\ event' = [op |-> "connect", socket |-> Len(sockets) + 1]
    /\ UNCHANGED <<federatedPeers, handled, activeNegotiations, lawVars, credVars>>

\* a frame arrives on an open socket
SocketMessage ==
    /\ Len(handled) + SentCount(sent) < MaxFrames
    /\ \E socket \in DOMAIN sockets, data \in FrameInputs :
          /\ sockets[socket] = "OPEN"
          /\ LET done == onMessage(data)
             IN  /\ handled' = IF done.handler = <<>> THEN handled
                                ELSE Append(handled, [handler |-> done.handler[1],
                                                      message |-> JSONparse(data).value])
                 /\ sent' = IF done.response = <<>> THEN sent
                             ELSE [sent EXCEPT ![socket] = Append(@, done.response[1])]
          /\ event' = [op |-> "message", socket |-> socket, data |-> data]
    /\ UNCHANGED <<federatedPeers, sockets, activeNegotiations, lawVars, credVars>>

\* the peer's socket closes
SocketClose ==
    /\ \E socket \in DOMAIN sockets :
          /\ sockets[socket] = "OPEN"
          /\ sockets' = [sockets EXCEPT ![socket] = "CLOSED"]
          /\ federatedPeers' = onClose(federatedPeers, socket)
          /\ event' = [op |-> "close", socket |-> socket]
    /\ UNCHANGED <<sent, handled, activeNegotiations, lawVars, credVars>>

\* POST /federation/negotiate
Negotiate ==
    /\ \E topic \in TopicInputs, rnd \in RandomInputs :
          LET negotiationId == generateNegotiationId(rnd, now)
              payload == JSONstringify(NegotiationMessage(negotiationId, rnd, now))
          IN  /\ activeNegotiations' =
                     [id \in DOMAIN activeNegotiations \cup { negotiationId } |->
                         IF id = negotiationId THEN [topic |-> topic, status |-> "initiated"]
                         ELSE activeNegotiations[id]]
              /\ sent' = broadcastToFederation(federatedPeers, sockets, sent, payload)
              /\ event' = [op |-> "negotiate", negotiationId |-> negotiationId, payload |-> payload]
    /\ UNCHANGED <<federatedPeers, sockets, handled, lawVars, credVars>>

Next ==
    \/ IssueCredential
    \/ VerifyAccessCall
    \/ VerifyAccessResume
    \/ RevokeCredential
    \/ ProcessNetworkTransition
    \/ Tick

Init == IdleLawEngine /\ InitCredentials /\ InitFederation

Spec == Init /\ [][Next]_vars

InitLaws == InitLawEngine /\ InitCredentials /\ InitFederation

SpecLaws == InitLaws /\ [][NextLaws]_vars

NextFederation ==
    \/ Connect
    \/ SocketMessage
    \/ SocketClose
    \/ Negotiate

SpecFederation == Init /\ [][NextFederation]_vars

\* the server keeps serving: whatever request or frame can be handled eventually is
SpecFederationFair == Init /\ [][NextFederation]_vars /\ WF_vars(NextFederation)

(***************************************************************************)
(* One verifyAccess call on a credential the caller presents.  verifyAccess *)
(* takes the credential object as an argument, so the caller may present   *)
(* an issued credential, a revoked one, or one altered after issuance.     *)
(***************************************************************************)
maxReasonableSteps == 100000    \* verifyEvolutionPath: maxReasonableSteps

AnyHashInputs == HashInputs \cup { "ai_2" }
\* counters up to MaxCounter, and one more than maxReasonableSteps beyond every snapshot counter
AnyCounterInputs == CounterInputs \cup { maxReasonableSteps + MaxCounter + 1 }
\* the enrolled fingerprints with the first k modalities changed
ChangedFingerprints(k) ==
    [m \in ModalitySet |->
        IF \E i \in 1..k : Modalities[i] = m THEN "fp1" ELSE EnrolledFingerprints[m]]
AnyFingerprintInputs == { ChangedFingerprints(k) : k \in 0..Len(Modalities) }
AnyRequiredCapabilityInputs == { <<>>, <<"">>, <<"repo_read">> }
AnyGrantInputs == GrantInputs \cup { <<>> }

AnyIssuanceRequests ==
    [ personId : PersonInputs,
      aiIdentityHash : HashInputs,
      currentEvolutionCounter : SnapshotCounterInputs,
      evolutionKey : KeyInputs,
      signatureFingerprints : { EnrolledFingerprints },
      capabilities : AnyGrantInputs,
      tier : { "small_business" },
      expiresAt : DateInputs ]

AnyVerificationRequests ==
    [ currentIdentityHash : AnyHashInputs,
      currentEvolutionCounter : AnyCounterInputs,
      currentFingerprints : AnyFingerprintInputs,
      requiredCapability : AnyRequiredCapabilityInputs ]

IssuedCredentials ==
    { NewCredential(request, rnd, 0) : request \in AnyIssuanceRequests, rnd \in RandomInputs }

\* what a holder can do to the fields the signature covers, or to the signature
\* itself, after issuance
Alterations == { "none", "personId", "identityHash", "credentialId", "forgedSignature", "noSignature" }

Altered(credential, how) ==
    CASE how = "none" -> credential
      [] how = "personId" -> [credential EXCEPT !.personId = "person_2"]
      [] how = "identityHash" -> [credential EXCEPT !.aiSignature.identityHash = "ai_2"]
      [] how = "credentialId" -> [credential EXCEPT !.credentialId = <<"cred", 0, "x2">>]
      [] how = "forgedSignature" -> [credential EXCEPT !.signature = [prefix |-> "sig_", data |-> <<"forged">>]]
      [] how = "noSignature" -> [credential EXCEPT !.signature = [prefix |-> "", data |-> <<>>]]

PresentedCredentials ==
    LET held == IssuedCredentials
                  \cup { RevokedCredential(c, reason, 0) : c \in IssuedCredentials, reason \in ReasonInputs }
    IN  { Altered(c, how) : c \in held, how \in Alterations }

InitVerify ==
    /\ IdleLawEngine
    /\ credentials \in { <<c>> : c \in PresentedCredentials }
    /\ revocations = <<>>
    /\ pending = <<>>
    /\ result = NoResult
    /\ now \in 0..MaxTime
    /\ InitFederation

\* verifyAccess(request, credential) up to its await, as in VerifyAccessCall
VerifyAccessCallAny ==
    /\ pending = <<>> /\ result = NoResult
    /\ \E c \in DOMAIN credentials, request \in AnyVerificationRequests :
          pending' = Append(pending, [credential |-> c,
                                      request |-> request,
                                      signatureValid |-> verifyCredentialSignature(credentials[c]),
                                      statusAtCall |-> credentials[c].status])
    /\ UNCHANGED <<credentials, revocations, result, now, lawVars, fedVars>>

NextVerify ==
    \/ VerifyAccessCallAny
    \/ VerifyAccessResume

SpecVerify == InitVerify /\ [][NextVerify]_vars

(***************************************************************************)
(* Properties of the credential manager (specification Spec)               *)
(***************************************************************************)
\* the step in which a suspended verifyAccess runs to its return
VerifyCompletes == pending # <<>> /\ pending' = Tail(pending)

\* C1: across every verifyAccess call, allowed or denied, the evolution
\* record's currentEvolutionCounter never decreases.
C1_CounterNonDecreasing ==
    [][\A c \in DOMAIN credentials :
          credentials'[c].evolutionRecord.currentEvolutionCounter
              >= credentials[c].evolutionRecord.currentEvolutionCounter]_vars

\* C2: a verifyAccess call presenting a counter lower than the one recorded by
\* an earlier call returns evolutionLegitimate = false and allowed = false.
C2_LowerThanRecordedDenied ==
    [][VerifyCompletes =>
          LET p == Head(pending) IN
          p.request.currentEvolutionCounter
                < credentials[p.credential].evolutionRecord.currentEvolutionCounter
             => /\ ~result'.checks.evolutionLegitimate
                /\ ~result'.allowed]_vars

\* C3: revocation is terminal: in every step of every operation a credential
\* whose status is 'revoked' keeps the status 'revoked'.
C3_RevocationTerminal ==
    [][\A c \in DOMAIN credentials :
          credentials[c].status = "revoked" => credentials'[c].status = "revoked"]_vars

\* a credential was revoked twice, so revokeCredential acted on a revoked credential
C3_Witness ==
    \E c \in DOMAIN credentials :
        /\ credentials[c].status = "revoked"
        /\ \E r1, r2 \in DOMAIN revocations :
              /\ r1 # r2
              /\ result.op = "revokeCredential" /\ result.credential = c
              /\ result.revocation = r2
              /\ revocations[r1].credentialId = credentials[c].credentialId

\* C4: a verifyAccess that returns on a revoked credential returns
\* credentialActive = false and allowed = false.  (Every operation that changes
\* a credential's status overwrites `result`, so while the result of a
\* verifyAccess stands the status is the one that call saw.)
C4_RevokedNeverAllowed ==
    (result.op = "verifyAccess" /\ credentials[result.credential].status = "revoked")
        => (~result.checks.credentialActive /\ ~result.allowed)

\* a request that passes the five other checks is denied on a revoked, unexpired credential
C4_Witness ==
    /\ result.op = "verifyAccess"
    /\ credentials[result.credential].status = "revoked"
    /\ credentials[result.credential].expiresAt = <<>>
    /\ result.checks.credentialValid /\ result.checks.signatureMatches
    /\ result.checks.evolutionLegitimate /\ result.checks.driftAcceptable
    /\ result.checks.capabilityGranted
    /\ ~result.allowed

\* C5: the status check and the evolution-record update of verifyAccess are one
\* step with respect to revokeCredential: the step that returns allowed = true
\* reads the status 'active', appends its history entry and leaves the
\* revocation fields as they are; a call that started before a revocation and
\* returns after it is denied.
C5_VerifyAtomicWithRevoke ==
    [][VerifyCompletes =>
          LET c == Head(pending).credential IN
          /\ result'.allowed => (credentials[c].status = "active" /\ credentials'[c].status = "active")
          /\ credentials[c].status = "revoked" => ~result'.allowed
          /\ Len(credentials'[c].evolutionRecord.evolutionHistory)
                = Len(credentials[c].evolutionRecord.evolutionHistory) + 1
          /\ credentials'[c].status = credentials[c].status
          /\ credentials'[c].revokedAt = credentials[c].revokedAt]_vars

\* a verifyAccess that started on an active credential returned after its revocation
C5_Witness ==
    /\ result.op = "verifyAccess"
    /\ result.statusAtCall = "active"
    /\ credentials[result.credential].status = "revoked"
    /\ ~result.allowed

C20_IssuedCredentialShape ==
    result.op = "issueCredential" =>
        LET credential == credentials[result.credential]
            request == result.request
            record == credential.evolutionRecord
        IN  /\ credential.status = "active"
            /\ credential.aiSignature.identityHash = request.aiIdentityHash
            /\ credential.aiSignature.evolutionCounter = request.currentEvolutionCounter
            /\ credential.aiSignature.evolutionKey = request.evolutionKey
            /\ credential.aiSignature.fingerprints = request.signatureFingerprints
            /\ credential.aiSignature.driftBaseline = 0
            /\ record.currentEvolutionCounter = request.currentEvolutionCounter
            /\ record.currentDriftScore = 0
            /\ ~record.needsReverification
            /\ record.evolutionHistory
                  = << [counter |-> request.currentEvolutionCounter, driftScore |-> 0, flagged |-> FALSE] >>

\* a credential issued for a signature that had already evolved once
C20_Witness ==
    /\ result.op = "issueCredential"
    /\ result.request.currentEvolutionCounter = 1
    /\ credentials[result.credential].evolutionRecord.evolutionHistory[1].counter = 1
    /\ credentials[result.credential].status = "active"

\* C21: no two issued credentials share a credentialId, whatever the requests
\* and the instants of the issueCredential calls.
C21_UniqueCredentialIds ==
    \A c1, c2 \in DOMAIN credentials :
        c1 # c2 => credentials[c1].credentialId # credentials[c2].credentialId

\* C22: when revokeCredential returns, the credential has status 'revoked',
\* revokedAt stamped with the time of the call, revokedBy the revoking
\* gatekeeper and revocationReason the given reason, and the Revocation
\* returned names that credentialId, gatekeeper and reason with
\* preserveSignature = true, for both values of allowNetworkTransition.
C22_RevocationStamps ==
    result.op = "revokeCredential" =>
        LET credential == credentials[result.credential]
            revocation == revocations[result.revocation]
        IN  /\ credential.status = "revoked"
            /\ credential.revokedAt = <<revocation.revokedAt>>
            /\ credential.revokedBy = <<gatekeeperId>>
            /\ credential.revocationReason = <<result.reason>>
            /\ revocation.credentialId = credential.credentialId
            /\ revocation.revokedBy = gatekeeperId
            /\ revocation.reason = result.reason
            /\ revocation.preserveSignature

\* a revocation without network transition that still preserves the signature
C22_Witness ==
    /\ result.op = "revokeCredential"
    /\ ~result.allowNetworkTransition
    /\ credentials[result.credential].status = "revoked"
    /\ credentials[result.credential].revocationReason = <<"resigned">>
    /\ revocations[result.revocation].preserveSignature

\* C23: the Revocation returned carries a transition target iff
\* allowNetworkTransition was true: then transitionToNodeType = 'peer' and
\* transitionApproved = false; otherwise there is no target, no approval flag
\* and signatureStatus = 'archived'.
C23_TransitionTarget ==
    result.op = "revokeCredential" =>
        LET revocation == revocations[result.revocation]
        IN  /\ (revocation.transitionToNodeType # <<>>) <=> result.allowNetworkTransition
            /\ result.allowNetworkTransition
                  => /\ revocation.transitionToNodeType = <<"peer">>
                     /\ revocation.transitionApproved = <<FALSE>>
            /\ ~result.allowNetworkTransition
                  => /\ revocation.transitionToNodeType = <<>>
                     /\ revocation.transitionApproved = <<>>
                     /\ revocation.signatureStatus = "archived"

\* a revocation with allowNetworkTransition = false carries no target and is archived
C23_Witness ==
    /\ result.op = "revokeCredential"
    /\ ~result.allowNetworkTransition
    /\ revocations[result.revocation].transitionToNodeType = <<>>
    /\ revocations[result.revocation].signatureStatus = "archived"

\* C24: processNetworkTransition on a Revocation without a transition target
\* returns approved = false with no new gatekeeper id and leaves every
\* Revocation as it was (no approval flag set, no transitionedAt stamped).
C24_TransitionUnavailable ==
    [][(/\ result'.op = "processNetworkTransition"
        /\ revocations[result'.revocation].transitionToNodeType = <<>>)
          => /\ ~result'.approved
             /\ result'.newGatekeeperId = <<>>
             /\ ~result'.networkAccessMaintained
             /\ revocations' = revocations]_vars

\* a transition was refused on a revocation made with allowNetworkTransition = false
C24_Witness ==
    /\ result.op = "processNetworkTransition"
    /\ ~result.approved
    /\ revocations[result.revocation].transitionToNodeType = <<>>
    /\ revocations[result.revocation].transitionApproved = <<>>
    /\ revocations[result.revocation].transitionedAt = <<>>

\* C25: processNetworkTransition on a Revocation with a transition target
\* returns approved = true with a new gatekeeper id, sets transitionApproved
\* and stamps transitionedAt; every approved result carries the three
\* restrictions, all true.
C25_TransitionApproved ==
    result.op = "processNetworkTransition" =>
        LET revocation == revocations[result.revocation]
        IN  /\ revocation.transitionToNodeType # <<>>
                  => /\ result.approved
                     /\ result.newGatekeeperId # <<>>
                     /\ result.newNodeType = <<result.request.requestedNodeType>>
                     /\ revocation.transitionApproved = <<TRUE>>
                     /\ revocation.transitionedAt # <<>>
            /\ result.approved
                  => /\ Len(result.restrictions) = 1
                     /\ result.restrictions[1].noCompanyResourceAccess
                     /\ result.restrictions[1].noKnowledgeCentreAccess
                     /\ result.restrictions[1].peerOnlyAccess

\* a credential revoked with allowNetworkTransition = true, then a transition to 'peer' approved
C25_Witness ==
    /\ result.op = "processNetworkTransition"
    /\ result.approved
    /\ result.request.requestedNodeType = "peer"
    /\ revocations[result.revocation].transitionToNodeType = <<"peer">>
    /\ revocations[result.revocation].transitionApproved = <<TRUE>>
    /\ result.restrictions[1].noCompanyResourceAccess

\* C26: a processNetworkTransition call that follows an approved call on the
\* same Revocation does not return a newGatekeeperId different from that
\* call's.
C26_NoDoubleApproval ==
    [][(/\ result.op = "processNetworkTransition" /\ result.approved
        /\ result'.op = "processNetworkTransition"
        /\ result'.revocation = result.revocation
        /\ result'.approved)
          => result'.newGatekeeperId = result.newGatekeeperId]_vars

\* C27: a Revocation's transitionApproved changes only from false to true,
\* only in a processNetworkTransition call on that Revocation and only when it
\* carries a transition target; once true it stays true, and a Revocation
\* without the flag never gets it.
C27_ApprovalFlipsOnce ==
    [][\A r \in DOMAIN revocations :
          LET before == revocations[r].transitionApproved
              after == revocations'[r].transitionApproved
          IN  /\ before = <<TRUE>> => after = <<TRUE>>
              /\ after # before
                    => /\ before = <<FALSE>> /\ after = <<TRUE>>
                       /\ result'.op = "processNetworkTransition"
                       /\ result'.revocation = r
                       /\ revocations[r].transitionToNodeType # <<>>]_vars

\* an approved Revocation on which a transition was requested again, later
C27_Witness ==
    /\ result.op = "processNetworkTransition" /\ result.approved
    /\ revocations[result.revocation].transitionApproved = <<TRUE>>
    /\ revocations[result.revocation].transitionedAt = <<now>>
    /\ now > revocations[result.revocation].revokedAt

\* C28: revokeCredential on a credential that is already revoked produces no
\* further Revocation for it and does not overwrite its revokedAt, revokedBy or
\* revocationReason.
C28_RevokedOnce ==
    [][\A c \in DOMAIN credentials :
          credentials[c].status = "revoked"
            => /\ credentials'[c].revokedAt = credentials[c].revokedAt
               /\ credentials'[c].revokedBy = credentials[c].revokedBy
               /\ credentials'[c].revocationReason = credentials[c].revocationReason
               /\ ~(Len(revocations') > Len(revocations) /\ result'.credential = c)]_vars

\* the snapshot and grant of a credential
Frozen(credential) ==
    [aiSignature |-> credential.aiSignature,
     capabilities |-> credential.capabilities,
     tier |-> credential.tier,
     signature |-> credential.signature,
     reverificationThreshold |-> credential.evolutionRecord.reverificationThreshold]

\* C35: no step changes an issued credential's aiSignature, capabilities,
\* tier, signature or reverificationThreshold, and a completing verifyAccess
\* changes nothing of any credential but the evolution record's current
\* counter, current drift, history and needsReverification.
C35_SnapshotImmutable ==
    [][\A c \in DOMAIN credentials :
          /\ Frozen(credentials'[c]) = Frozen(credentials[c])
          /\ Len(pending') < Len(pending)
                => LET after == credentials'[c].evolutionRecord
                   IN  credentials'[c] =
                          [credentials[c] EXCEPT
                              !.evolutionRecord.currentEvolutionCounter = after.currentEvolutionCounter,
                              !.evolutionRecord.currentDriftScore = after.currentDriftScore,
                              !.evolutionRecord.evolutionHistory = after.evolutionHistory,
                              !.evolutionRecord.needsReverification = after.needsReverification]]_vars

\* a credential verified with all four fingerprints changed and then revoked
\* still carries the fingerprints and threshold it was issued with
C35_Witness ==
    /\ result.op = "revokeCredential"
    /\ LET credential == credentials[result.credential]
       IN  /\ credential.status = "revoked"
           /\ Len(credential.evolutionRecord.evolutionHistory) = 2
           /\ credential.evolutionRecord.currentDriftScore = 100
           /\ credential.aiSignature.fingerprints = EnrolledFingerprints
           /\ credential.evolutionRecord.reverificationThreshold = DefaultThreshold
           /\ credential.tier = "small_business"

\* C40: an approved processNetworkTransition result is for a request that
\* names the Revocation's credential, and its new node type is the
\* Revocation's transition target.
C40_TransitionMatchesRevocation ==
    (result.op = "processNetworkTransition" /\ result.approved)
      => /\ result.request.credentialId = revocations[result.revocation].credentialId
         /\ result.newNodeType = revocations[result.revocation].transitionToNodeType

\* C11: a revokeCredential call whose law check (laws 10 and 11) does not pass
\* returns no Revocation and leaves every credential as it was.
C11_RevocationFailsClosed ==
    [][(result'.op = "revokeCredential" /\ ~result'.lawCheck.allowed)
          => (revocations' = revocations /\ credentials' = credentials)]_vars

\* C10: no credential is issued for a request whose issuance law check
\* (laws 1, 5, 10) fails.
C10_NoIssuanceOnLawViolation ==
    result.op = "issueCredential" => result.lawCheck.allowed

(***************************************************************************)
(* Issuance on its own, with both outcomes of Math.random in              *)
(* generateCredentialId: the suffix of an earlier call again, or another.  *)
(***************************************************************************)
AnyRandomInputs == RandomInputs \cup { "x2" }

\* issueCredential(request), as in IssueCredential
IssueCredentialAny ==
    /\ Calls < MaxCalls
    /\ \E request \in IssuanceRequests, rnd \in AnyRandomInputs, consent \in ConsentInputs :
          /\ credentials' = Append(credentials, NewCredential(request, rnd, now))
          /\ result' = [op |-> "issueCredential",
                        credential |-> Len(credentials) + 1,
                        request |-> request,
                        lawCheck |-> enforceCredentialIssuance(consent)]
    /\ UNCHANGED <<revocations, pending, now, lawVars, fedVars>>

NextIssue ==
    \/ IssueCredentialAny
    \/ Tick

SpecIssue == Init /\ [][NextIssue]_vars

(***************************************************************************)
(* The drift functions, called on their own.  `context` holds the          *)
(* arguments of the call, `call` and `out` the call made and its result.   *)
(***************************************************************************)
\* weights a caller may supply, in hundredths
WeightInputs == { 0, 25, 100 }

\* the enrolled fingerprints with the modalities of `changed` changed
FingerprintsChangedIn(changed) ==
    [m \in ModalitySet |-> IF m \in changed THEN "fp1" ELSE EnrolledFingerprints[m]]

DriftInputs ==
    [ snapshotFingerprints : { EnrolledFingerprints },
      currentFingerprints : { FingerprintsChangedIn(changed) : changed \in SUBSET ModalitySet },
      weights : { <<>> } \cup { <<w>> : w \in [ModalitySet -> WeightInputs] } ]

\* weights || { text: 0.25, image: 0.25, audio: 0.25, object: 0.25 }
DefaultWeights == [m \in ModalitySet |-> 25]

RECURSIVE WeightedSum(_, _, _)
WeightedSum(modalDrifts, w, i) ==
    IF i > Len(Modalities) THEN 0
    ELSE modalDrifts[Modalities[i]] * w[Modalities[i]] + WeightedSum(modalDrifts, w, i + 1)

\* overallDrift in hundredths; a modal drift is 0 or 1
calculateMultimodalDrift(snapshotFingerprints, currentFingerprints, weights) ==
    LET w == IF weights = <<>> THEN DefaultWeights ELSE weights[1]
        modalDrifts == [m \in ModalitySet |->
                           IF snapshotFingerprints[m] = currentFingerprints[m] THEN 0 ELSE 1]
        overallDrift == WeightedSum(modalDrifts, w, 1)
    IN  [outcome |-> "returned",
         overallDrift |-> overallDrift,
         modalDrifts |-> modalDrifts,
         driftLevel |-> IF overallDrift < 30 THEN "low"
                        ELSE IF overallDrift < 60 THEN "medium"
                        ELSE IF overallDrift < 80 THEN "high"
                        ELSE "critical"]

InitSignature ==
    /\ context \in DriftInputs
    /\ call = NoCall
    /\ out = NoOut
    /\ InitCredentials
    /\ InitFederation

CallCalculateMultimodalDrift ==
    /\ Idle
    /\ call' = [fn |-> "calculateMultimodalDrift", lawIds |-> <<>>]
    /\ out' = calculateMultimodalDrift(context.snapshotFingerprints, context.currentFingerprints,
                                       context.weights)
    /\ UNCHANGED <<context, credVars, fedVars>>

\* the manager's calculateDrift takes no weights
CallCalculateDrift ==
    /\ Idle /\ context.weights = <<>>
    /\ call' = [fn |-> "calculateDrift", lawIds |-> <<>>]
    /\ out' = [outcome |-> "returned",
               overallDrift |-> calculateDrift(context.snapshotFingerprints, context.currentFingerprints)]
    /\ UNCHANGED <<context, credVars, fedVars>>

NextSignature ==
    \/ CallCalculateMultimodalDrift
    \/ CallCalculateDrift

SpecSignature == InitSignature /\ [][NextSignature]_vars

(***************************************************************************)
(* Properties of one verifyAccess call (specification SpecVerify)          *)
(***************************************************************************)
FailedChecks(checks) == { n \in { CheckNames[i] : i \in DOMAIN CheckNames } : ~checks[n] }

\* C12: every verifyAccess result carries all six checks, each with its own
\* value whatever the others are; allowed is true iff all six are true;
\* denialReasons has exactly one entry per failed check, so the call is denied
\* iff denialReasons is non-empty.
C12_AllChecksDecide ==
    result.op = "verifyAccess" =>
        LET credential == credentials[result.credential]
            checks == result.checks
        IN  /\ result.allowed <=>
                  (/\ checks.credentialValid /\ checks.credentialActive
                   /\ checks.signatureMatches /\ checks.evolutionLegitimate
                   /\ checks.driftAcceptable /\ checks.capabilityGranted)
            /\ checks.credentialValid <=> (credential.signature.prefix = "sig_")
            /\ checks.credentialActive <=>
                  (/\ credential.status = "active"
                   /\ (credential.expiresAt = <<>> \/ credential.expiresAt[1] > result.verifiedAt))
            /\ checks.signatureMatches <=>
                  (result.request.currentIdentityHash = credential.aiSignature.identityHash)
            /\ checks.driftAcceptable <=> (result.currentDrift <= result.driftThreshold)
            /\ Len(result.denialReasons) = Cardinality(FailedChecks(checks))
            /\ { result.denialReasons[i] : i \in DOMAIN result.denialReasons }
                  = { DenialReason(n) : n \in FailedChecks(checks) }
            /\ ~result.allowed <=> (result.denialReasons # <<>>)

\* a call on which all six checks fail and six reasons are reported
C12_Witness ==
    /\ result.op = "verifyAccess"
    /\ FailedChecks(result.checks) = { CheckNames[i] : i \in DOMAIN CheckNames }
    /\ Len(result.denialReasons) = 6
    /\ ~result.allowed

\* C13: a presented credential whose signature is not the issuer's signature
\* over its credentialId, personId and aiSignature.identityHash (a field changed
\* after issuance, or a signature made up) gets credentialValid = false and
\* allowed = false.
C13_TamperingDetected ==
    result.op = "verifyAccess" =>
        LET credential == credentials[result.credential]
        IN  credential.signature # signCredential(credential)
                => (~result.checks.credentialValid /\ ~result.allowed)

\* how far the presented counter is from the snapshot counter
EvolutionSteps(request, credential) ==
    request.currentEvolutionCounter - credential.aiSignature.evolutionCounter

\* C14: evolutionLegitimate is true exactly when the presented counter is not
\* below the snapshot counter and not more than the maximum step bound above
\* it; a rollback or a jump beyond the bound is denied.  (An
\* AccessVerificationRequest has no evolution-key field: the key verifyAccess
\* hands to verifyEvolution is the snapshot's own, so no request presents
\* a different key.)
C14_EvolutionLegitimate ==
    result.op = "verifyAccess" =>
        LET steps == EvolutionSteps(result.request, credentials[result.credential])
        IN  /\ result.checks.evolutionLegitimate <=> (steps >= 0 /\ steps <= maxReasonableSteps)
            /\ (steps < 0 \/ steps > maxReasonableSteps) => ~result.allowed

\* why the evolution a request presents is illegitimate for a credential
EvolutionCause(request, credential) ==
    IF EvolutionSteps(request, credential) < 0 THEN "rollback"
    ELSE IF EvolutionSteps(request, credential) > maxReasonableSteps THEN "jump"
    ELSE "none"

\* the reasons of a result that come from none of the five other checks
EvolutionReasons(r) ==
    { r.denialReasons[i] : i \in DOMAIN r.denialReasons }
        \ { DenialReason(n) : n \in { CheckNames[i] : i \in DOMAIN CheckNames } \ { "evolutionLegitimate" } }

\* C15: a verification whose evolution is illegitimate carries a reason for it,
\* and the reasons carried for two different causes (rollback, excessive jump;
\* no request can present a key) differ.
C15_EvolutionCauseDistinguished ==
    result.op = "verifyAccess" =>
        LET credential == credentials[result.credential]
            cause == EvolutionCause(result.request, credential)
            callWith(q) == [credential |-> result.credential, request |-> q,
                        signatureValid |-> result.checks.credentialValid,
                        statusAtCall |-> result.statusAtCall]
        IN  cause # "none" =>
              /\ EvolutionReasons(result) # {}
              /\ \A q \in AnyVerificationRequests :
                    EvolutionCause(q, credential) \notin { "none", cause }
                      => EvolutionReasons(VerifyAccessResult(callWith(q), credential, now))
                            \cap EvolutionReasons(result) = {}

C17_EarlyWarning ==
    result.op = "verifyAccess" =>
        LET record == credentials[result.credential].evolutionRecord
            checks == result.checks
        IN  /\ result.needsReverification <=> (10 * result.currentDrift > 8 * result.driftThreshold)
            /\ record.needsReverification <=> (10 * result.currentDrift > 8 * result.driftThreshold)
            /\ result.driftThreshold = record.reverificationThreshold
            /\ (/\ result.request.currentFingerprints = ChangedFingerprints(1)
                /\ result.driftThreshold = 70)
                  => /\ result.currentDrift = 25
                     /\ ~result.needsReverification
                     /\ checks.driftAcceptable
                     /\ (/\ checks.credentialValid /\ checks.credentialActive
                         /\ checks.signatureMatches /\ checks.evolutionLegitimate
                         /\ checks.capabilityGranted) => result.allowed

\* a call denied because the credential is revoked still raises the warning
C17_Witness ==
    /\ result.op = "verifyAccess"
    /\ ~result.checks.credentialActive /\ ~result.allowed
    /\ result.currentDrift = 100
    /\ result.needsReverification
    /\ credentials[result.credential].evolutionRecord.needsReverification

\* C37: for a presented credential there is a verification request whose
\* verifyAccess result has needsReverification = true while driftAcceptable
\* is true: the warning can fire before the denial.
C37_WarningBeforeDenial ==
    \A c \in DOMAIN credentials :
        \E request \in AnyVerificationRequests :
            LET p == [credential |-> c,
                      request |-> request,
                      signatureValid |-> verifyCredentialSignature(credentials[c]),
                      statusAtCall |-> credentials[c].status]
                verified == VerifyAccessResult(p, credentials[c], now)
            IN  verified.needsReverification /\ verified.checks.driftAcceptable

\* C19: capabilityGranted is true iff the request names no required capability
\* (none, or the empty string) or the named one is in the credential's
\* capability set; an active credential as issued with capabilities
\* [repo_read], verified for repo_read with the identity hash, fingerprints and
\* counter of its snapshot, is allowed with drift 0.
C19_CapabilityGranted ==
    result.op = "verifyAccess" =>
        LET credential == credentials[result.credential]
            request == result.request
        IN  /\ result.checks.capabilityGranted <=>
                  (\/ request.requiredCapability \in { <<>>, <<"">> }
                   \/ request.requiredCapability[1] \in credential.capabilities)
            /\ (/\ credential.signature = signCredential(credential)
                /\ credential.status = "active"
                /\ (credential.expiresAt = <<>> \/ credential.expiresAt[1] > result.verifiedAt)
                /\ credential.capabilities = { "repo_read" }
                /\ request.requiredCapability = <<"repo_read">>
                /\ request.currentIdentityHash = credential.aiSignature.identityHash
                /\ request.currentFingerprints = credential.aiSignature.fingerprints
                /\ request.currentEvolutionCounter = credential.aiSignature.evolutionCounter)
                  => (result.allowed /\ result.currentDrift = 0 /\ result.denialReasons = <<>>)

\* the credential with capabilities [repo_read], verified for repo_read, is allowed with drift 0
C19_Witness ==
    /\ result.op = "verifyAccess"
    /\ result.request.requiredCapability = <<"repo_read">>
    /\ credentials[result.credential].capabilities = { "repo_read" }
    /\ result.request.currentFingerprints = credentials[result.credential].aiSignature.fingerprints
    /\ result.request.currentEvolutionCounter = credentials[result.credential].aiSignature.evolutionCounter
    /\ result.checks.capabilityGranted
    /\ result.allowed /\ result.currentDrift = 0

(***************************************************************************)
(* Properties of the drift functions (specification SpecSignature)         *)
(***************************************************************************)
\* C16: the drift calculateDrift and calculateMultimodalDrift return is in
\* [0,1] (0..100 hundredths), 0 when the four fingerprints are identical and 1
\* when all four differ, for every weight set; and every recorded
\* currentDriftScore is in [0,1].
C16_DriftBounded ==
    /\ call.fn \in { "calculateDrift", "calculateMultimodalDrift" } =>
          /\ out.overallDrift >= 0 /\ out.overallDrift <= 100
          /\ (\A m \in ModalitySet : context.currentFingerprints[m] = context.snapshotFingerprints[m])
                => out.overallDrift = 0
          /\ (\A m \in ModalitySet : context.currentFingerprints[m] # context.snapshotFingerprints[m])
                => out.overallDrift = 100
    /\ \A c \in DOMAIN credentials :
          /\ credentials[c].evolutionRecord.currentDriftScore >= 0
          /\ credentials[c].evolutionRecord.currentDriftScore <= 100

(***************************************************************************)
(* Properties of the law engine (specification SpecLaws)                   *)
(***************************************************************************)
KnownIds == { ELEVEN_LAWS[i] : i \in DOMAIN ELEVEN_LAWS }
IdsIn(seq) == { seq[i] : i \in DOMAIN seq }
ViolatedIds(violations) == { violations[i].lawId : i \in DOMAIN violations }

\* the requested list without the ids outside the registry
RECURSIVE KnownOnly(_)
KnownOnly(lawIds) ==
    IF lawIds = <<>> THEN <<>>
    ELSE (IF Head(lawIds) \in KnownIds THEN <<Head(lawIds)>> ELSE <<>>) \o KnownOnly(Tail(lawIds))

\* C6: validateLaws returns a violation for exactly the requested known laws
\* whose predicate is non-compliant on the context, and compliant iff none.
C6_AllViolationsReported ==
    call.fn = "validateLaws" =>
        /\ out.outcome = "returned"
        /\ ViolatedIds(out.violations)
              = { id \in IdsIn(call.lawIds) \cap KnownIds : ~validator(id, context).compliant }
        /\ out.compliant <=> (out.violations = <<>>)

\* C7: law 5 alone is non-compliant whenever involvesData is true and
\* consentObtained is absent or false, and compliant whenever involvesData is false.
C7_ConsentFailClosed ==
    (call.fn = "validateLaws" /\ call.lawIds = <<5>>) =>
        /\ (Truthy(context, "involvesData") /\ Falsy(context, "consentObtained"))
              => (out.outcome = "returned" /\ ~out.compliant /\ ViolatedIds(out.violations) = {5})
        /\ (Present(context, "involvesData") /\ ~context["involvesData"])
              => (out.outcome = "returned" /\ out.compliant /\ out.violations = <<>>)

\* validateLaws([5], {involvesData: true}) with the consent omitted is non-compliant
C7_Witness ==
    /\ call.fn = "validateLaws" /\ call.lawIds = <<5>>
    /\ Truthy(context, "involvesData") /\ ~Present(context, "consentObtained")
    /\ ~out.compliant

\* C8: every enforcement call returns an audit entry whose result is 'success'
\* iff allowed and whose lawViolations are the law ids of the returned violations.
EnforcementCalls ==
    { "enforceCredentialIssuance", "enforceKnowledgeAccess", "enforceInstitutionalPolicy",
      "enforceCredentialRevocation", "enforcePolicyTeaching", "enforceEscalation",
      "enforceDataSharing", "enforceAction" }

C8_AuditEntryAlways ==
    call.fn \in EnforcementCalls =>
        /\ out.outcome = "returned"
        /\ out.auditEntry.action # "none"
        /\ (out.auditEntry.result = "success") <=> out.allowed
        /\ out.auditEntry.lawViolations = LawIdsOf(out.violations)

\* C9: validateLaws gives the same outcome, compliant flag and violations as on
\* the list without its unknown ids; a list of unknown ids only returns
\* compliant with no violations.
C9_UnknownIdsSkipped ==
    call.fn = "validateLaws" =>
        /\ out = validateLaws(KnownOnly(call.lawIds), context)
        /\ KnownOnly(call.lawIds) = <<>>
              => (out.outcome = "returned" /\ out.compliant /\ out.violations = <<>>)

\* an unknown id requested together with a law the context violates
C9_Witness ==
    /\ call.fn = "validateLaws"
    /\ IdsIn(call.lawIds) \ KnownIds # {}
    /\ IdsIn(call.lawIds) \cap KnownIds # {}
    /\ out.outcome = "returned" /\ out.violations # <<>>

(***************************************************************************)
(* Properties of the federation router and peer table (SpecFederation)     *)
(***************************************************************************)
\* the handler that belongs to a message type
HandlerOf(messageType) ==
    CASE messageType = "credential_transfer" -> "handleCredentialTransfer"
      [] messageType = "negotiation" -> "handleNegotiation"
      [] messageType = "policy_teaching" -> "handlePolicyTeaching"
      [] messageType = "escalation" -> "handleEscalation"
      [] messageType = "revocation" -> "handleRevocation"

\* the frame is the JSON text of a message of one of the five types
KnownMessage(data) ==
    /\ data.json
    /\ data.value.kind = "object"
    /\ "messageType" \in DOMAIN data.value.fields
    /\ data.value.fields.messageType \in MessageTypes

ErrorResponses == { InvalidMessageFormat, UnknownMessageType }

\* C29: every frame the router receives is either a message of one of the five
\* types, and then exactly the handler of that type is invoked once and nothing
\* is sent, or it is anything else (an unknown type, no type, text that does not
\* parse), and then no handler is invoked and exactly one error response is
\* sent on the socket the frame came from.
C29_NoSilentDrop ==
    [][event'.op = "message" =>
          LET data == event'.data
              socket == event'.socket
          IN  IF KnownMessage(data)
              THEN /\ handled' = Append(handled,
                                         [handler |-> HandlerOf(data.value.fields.messageType),
                                          message |-> data.value])
                   /\ sent' = sent
              ELSE /\ handled' = handled
                   /\ \E response \in ErrorResponses :
                         sent' = [sent EXCEPT ![socket] = Append(@, response)]]_vars

\* one message was dispatched to its handler and a frame of unknown type was
\* answered with an error on its own socket
C29_Witness ==
    /\ event.op = "message"
    /\ ~KnownMessage(event.data)
    /\ event.data.json /\ event.data.value.kind = "object"
    /\ sent[event.socket] = <<UnknownMessageType>>
    /\ Len(handled) = 1
    /\ handled[1].handler = "handleEscalation"

\* C30: the peer table holds exactly the sockets that are connected, and a
\* negotiation that was just initiated has been sent on every open socket.
C30_PeerTableTracksConnections ==
    /\ { federatedPeers[i].socket : i \in DOMAIN federatedPeers }
          = { socket \in DOMAIN sockets : sockets[socket] = "OPEN" }
    /\ event.op = "negotiate"
          => \A socket \in DOMAIN sockets :
                sockets[socket] = "OPEN"
                  => /\ sent[socket] # <<>>
                     /\ sent[socket][Len(sent[socket])] = event.payload

\* the ids /federation/negotiate can produce
NegotiationIds == { generateNegotiationId(rnd, clock) : rnd \in RandomInputs, clock \in 0..MaxTime }

\* C31: every negotiation stored with status 'initiated' eventually has a
\* closed status (any status other than 'initiated').
C31_NegotiationsClose ==
    \A id \in NegotiationIds :
        (id \in DOMAIN activeNegotiations /\ activeNegotiations[id].status = "initiated")
          ~> (id \in DOMAIN activeNegotiations /\ activeNegotiations[id].status # "initiated")

(***************************************************************************)
(* Properties of the law predicates and the entry points (SpecLaws)        *)
(***************************************************************************)
\* C32: a validation call returns a result for every context shape; it never
\* raises an error.
C32_LawsTotal ==
    call.fn \in { "validateLaws", "validateAllLaws" } => out.outcome = "returned"

\* the context without one of its fields
Without(ctx, f) == [g \in DOMAIN ctx \ { f } |-> ctx[g]]

\* the fields whose absence marks a law as not applicable
NotApplicableFields(lawId) ==
    CASE lawId = 1 -> { "affectsHuman" }
      [] lawId = 3 -> { "conflictsWithFamily" }
      [] lawId = 5 -> { "involvesData" }
      [] OTHER -> {}

\* C33: when one law is non-compliant on a context, it is still not compliant
\* on the context with any one field removed, unless that field is the one
\* that marks the law as not applicable.
C33_FailClosedOnOmission ==
    (/\ call.fn = "validateLaws" /\ Len(call.lawIds) = 1 /\ call.lawIds[1] \in KnownIds
     /\ out.outcome = "returned" /\ ~out.compliant)
      => \A f \in DOMAIN context \ NotApplicableFields(call.lawIds[1]) :
            ~validator(call.lawIds[1], Without(context, f)).compliant

\* C34: enforceCredentialIssuance allows iff humanConsent is true and the
\* subject is not a minor or parental consent is true; without humanConsent the
\* violations contain laws 1 and 5; with only the parental consent of a minor
\* missing they are law 5 alone.
C34_IssuanceConsent ==
    call.fn = "enforceCredentialIssuance" =>
        LET humanConsent == context["humanConsent"]
            parentalMissing == context["isMinor"] /\ Falsy(context, "parentalConsent")
        IN  /\ out.outcome = "returned"
            /\ out.allowed <=> (humanConsent /\ ~parentalMissing)
            /\ ~humanConsent => { 1, 5 } \subseteq ViolatedIds(out.violations)
            /\ (humanConsent /\ parentalMissing) => ViolatedIds(out.violations) = { 5 }

\* issuance for a consenting minor whose parental consent was not given: law 5 alone
C34_Witness ==
    /\ call.fn = "enforceCredentialIssuance"
    /\ context["humanConsent"] /\ context["isMinor"] /\ ~Present(context, "parentalConsent")
    /\ ~out.allowed
    /\ ViolatedIds(out.violations) = { 5 }

\* C38: no call of an enforcement entry point returns a violation of law 10,
\* whatever the caller's context says about logging.
C38_AuditLawStructural ==
    call.fn \in EnforcementCalls =>
        /\ 10 \notin ViolatedIds(out.violations)
        /\ out.outcome = "returned" => 10 \notin IdsIn(out.auditEntry.lawViolations)

\* enforceAction called with logged: false in its context returned, without law 10
C38_Witness ==
    /\ call.fn = "enforceAction"
    /\ Present(context, "logged") /\ ~context["logged"]
    /\ out.outcome = "returned"
    /\ 10 \notin ViolatedIds(out.violations)

\* C39: the audit entry of an enforcement call lists as checked exactly the
\* laws whose predicates the call evaluated.
C39_LawsCheckedAreEvaluated ==
    (call.fn \in EnforcementCalls /\ out.outcome = "returned")
      => out.auditEntry.lawsChecked = call.lawIds

====
